---- MODULE Spec2Model ----
(***************************************************************************)
(* Model of the text/v2 font-fallback core: StdFace (one font.Face with a  *)
(* glyph image cache and a copy guard) and MultiFace (an ordered list of   *)
(* faces, split by glyph availability).                                    *)
(*                                                                         *)
(* Numbers: fixed.Int26_6 values are integers counting 1/64 pixel.         *)
(* float64 values are integers counting 1/128 pixel, so that a float64 can *)
(* hold a value no Int26_6 holds, and the two conversions lose and scale.  *)
(* Strings are sequences of bytes; runes are decoded from them as          *)
(* unicode/utf8 does.                                                      *)
(***************************************************************************)
EXTENDS Integers, Sequences, FiniteSets, TLC

VARIABLES
    objs,        \* heap of StdFace values: address -> StdFace record or NoObj
    m,           \* the MultiFace under test: a sequence of addresses (SpecMulti)
    text,        \* the line handed to the MultiFace operations (SpecMulti)
    indexOffset, \* the caller's indexOffset (SpecMulti)
    originX,     \* the caller's originX, a float64 (SpecMulti)
    originY,     \* the caller's originY, a float64 (SpecMulti)
    srcs,        \* the Metrics() of each source of a MultiFace (SpecMetrics)
    last,        \* the operation that ran last: [op, recv, outcome]
    chunks,      \* result of the last splitText
    adv,         \* result of the last advance (float64)
    glyphs,      \* result of the last appendGlyphsForLine
    mt,          \* result of the last Metrics
    emits,       \* history: for each Glyph of glyphs, the rune and running origin it was emitted at
    implCount,   \* history: [s, rune, xoffset] -> number of glyphImageImpl invocations
    requests,    \* history: the creation inputs every glyphImage lookup bound, as [s, rune, sub, b]
    lookups,     \* history: what every glyphImage lookup returned, as [s, rune, xoffset, img]
    hits         \* history: the [s, rune, xoffset] a lookup found in the cache

vars == <<objs, m, text, indexOffset, originX, originY, srcs, last, chunks, adv,
          glyphs, mt, emits, implCount, requests, lookups, hits>>

(***************************************************************************)
(* Bounds of the model.                                                    *)
(***************************************************************************)
MaxLen == 3       \* longest enumerated line of SpecMulti, in bytes
MaxFaces == 2     \* longest enumerated MultiFace
StdMaxLen == 2    \* longest line of one StdFace call, in runes

(***************************************************************************)
(* unicode/utf8                                                            *)
(***************************************************************************)
RuneError == 65533

IsCont(b) == b \in 128..191

\* utf8.DecodeRuneInString(s[i:]) for a 1-based byte position i <= Len(s),
\* which is also what one step of `for i, r := range s` decodes.
DecodeRune(s, i) ==
    LET n == Len(s) - i + 1
        b0 == s[i]
        b1 == s[i + 1]
        b2 == s[i + 2]
        b3 == s[i + 3]
        bad == [r |-> RuneError, size |-> 1]
        lo1 == IF b0 = 224 THEN 160 ELSE IF b0 = 240 THEN 144 ELSE 128
        hi1 == IF b0 = 237 THEN 159 ELSE IF b0 = 244 THEN 143 ELSE 191
    IN  IF b0 < 128 THEN [r |-> b0, size |-> 1]
        ELSE IF b0 \in 194..223
        THEN IF n >= 2 /\ IsCont(b1)
             THEN [r |-> (b0 - 192) * 64 + (b1 - 128), size |-> 2]
             ELSE bad
        ELSE IF b0 \in 224..239
        THEN IF n >= 3 /\ b1 \in lo1..hi1 /\ IsCont(b2)
             THEN [r |-> (b0 - 224) * 4096 + (b1 - 128) * 64 + (b2 - 128), size |-> 3]
             ELSE bad
        ELSE IF b0 \in 240..244
        THEN IF n >= 4 /\ b1 \in lo1..hi1 /\ IsCont(b2) /\ IsCont(b3)
             THEN [r |-> (b0 - 240) * 262144 + (b1 - 128) * 4096
                         + (b2 - 128) * 64 + (b3 - 128), size |-> 4]
             ELSE bad
        ELSE bad

\* text[a:b] of Go (0-based, b exclusive) on a 1-based sequence.
Slice(s, a, b) == SubSeq(s, a + 1, b)

(***************************************************************************)
(* golang.org/x/image/math/fixed and the float64 conversions               *)
(***************************************************************************)
\* x & ((1 << 6) - 1)
FracBits(x) == x % 64

\* x &^ ((1 << 6) - 1)
ClearFracBits(x) == x - (x % 64)

\* fixed.Int26_6.Floor
Floor(x) == x \div 64

\* fixed.Int26_6.Ceil
Ceil(x) == (x + 63) \div 64

float64ToFixed26_6(x) == x \div 2

fixed26_6ToFloat64(x) == 2 * x

\* float64(n) of an int n
IntToFloat64(n) == 128 * n

(***************************************************************************)
(* The font.Face values wrapped by the StdFaces of the model.  Font 1      *)
(* covers the Latin letters, font 2 everything but U+FFFD, font 3 only     *)
(* 'a' (a glyph without ink) and U+00E9.                                   *)
(***************************************************************************)
Fonts == 1..3

\* second result of font.Face.GlyphAdvance
FontHasGlyph(f, r) ==
    CASE f = 1 -> r \in (65..90) \cup (97..122)
      [] f = 2 -> r # RuneError
      [] OTHER -> r \in {97, 233}

\* first result of font.Face.GlyphAdvance, second of GlyphBounds
FontAdvance(f, r) ==
    IF ~FontHasGlyph(f, r) THEN 0
    ELSE CASE f = 1 -> 512 + 24 * (r % 2)
           [] f = 2 -> 600 + 8 * (r % 3)
           [] OTHER -> 448

\* font.Face.Kern
FontKern(f, p, r) ==
    CASE f = 1 -> IF p = 97 /\ r = 98 THEN -24 ELSE 0
      [] f = 2 -> IF p = r THEN 8 ELSE 0
      [] OTHER -> 0

ZeroRect == [Min |-> [X |-> 0, Y |-> 0], Max |-> [X |-> 0, Y |-> 0]]

\* first result of font.Face.GlyphBounds
FontGlyphBounds(f, r) ==
    IF ~FontHasGlyph(f, r) THEN ZeroRect
    ELSE CASE f = 1 -> [Min |-> [X |-> 6, Y |-> -630], Max |-> [X |-> 410, Y |-> 20]]
           [] f = 2 -> [Min |-> [X |-> -(r % 2) * 40, Y |-> -700 - (r % 2) * 9],
                        Max |-> [X |-> 500, Y |-> 64]]
           [] OTHER -> IF r = 97
                       THEN [Min |-> [X |-> 12, Y |-> -5], Max |-> [X |-> 12, Y |-> 30]]
                       ELSE [Min |-> [X |-> -3, Y |-> -517], Max |-> [X |-> 380, Y |-> 0]]

\* font.Face.Metrics: Height, Ascent, Descent
FontMetrics(f) ==
    CASE f = 1 -> [Height |-> 1536, Ascent |-> 1200, Descent |-> 336]
      [] f = 2 -> [Height |-> 2048, Ascent |-> 1601, Descent |-> 447]
      [] OTHER -> [Height |-> 1024, Ascent |-> 800, Descent |-> 224]

\* the grid step of adjustGranularity for a face over font f: a divisor of 1 << 6
Granularity(f) ==
    CASE f = 1 -> 64
      [] f = 2 -> 32
      [] OTHER -> 64

(***************************************************************************)
(* StdFace                                                                 *)
(***************************************************************************)
NoObj == [f |-> 0, glyphImageCache |-> <<>>, addr |-> 0]

\* NewStdFace(face), allocated at address a
NewStdFace(a, face) == [f |-> face, glyphImageCache |-> <<>>, addr |-> a]

\* a copyCheck that never panics
copyCheckAbsent(heap, a) == TRUE

\* StdFace.copyCheck at receiver address a: TRUE when it returns, FALSE when it panics
copyCheck(heap, a) == heap[a].addr = a

\* StdFace.Metrics, after its copyCheck
StdFace_Metrics(s) ==
    LET fm == FontMetrics(s.f)
    IN  [Height |-> fixed26_6ToFloat64(fm.Height),
         HAscent |-> fixed26_6ToFloat64(fm.Ascent),
         HDescent |-> fixed26_6ToFloat64(fm.Descent),
         Width |-> 0, VAscent |-> 0, VDescent |-> 0]

\* font.MeasureString(s.f, text), as StdFace.advance calls it
RECURSIVE MeasureStringFrom(_, _, _, _, _)
MeasureStringFrom(f, txt, i, prevC, advance) ==
    IF i >= Len(txt) THEN advance
    ELSE LET d == DecodeRune(txt, i + 1)
             kerned == IF prevC >= 0 THEN advance + FontKern(f, prevC, d.r) ELSE advance
         IN  IF ~FontHasGlyph(f, d.r)
             THEN MeasureStringFrom(f, txt, i + d.size, prevC, kerned)
             ELSE MeasureStringFrom(f, txt, i + d.size, d.r, kerned + FontAdvance(f, d.r))

\* StdFace.advance
StdFace_advance(s, txt) == fixed26_6ToFloat64(MeasureStringFrom(s.f, txt, 0, -1, 0))

\* StdFace.hasGlyph
StdFace_hasGlyph(s, r) == FontHasGlyph(s.f, r)

\* StdFace.direction
StdFace_direction(s) == "LeftToRight"

\* Direction.isHorizontal
isHorizontal(d) == d \in {"LeftToRight", "RightToLeft"}

\* the nil *ebiten.Image
NilImage == [owner |-> 0, rune |-> -1, sub |-> [X |-> 0, Y |-> 0], w |-> 0, h |-> 0, serial |-> 0]

\* StdFace.glyphImageImpl.  The image it allocates is told from every other
\* image by its owner, its rune, its offset and `serial`, the number of this
\* invocation among those of the same owner, rune and horizontal offset.
glyphImageImpl(a, r, subpixelOffset, glyphBounds, serial) ==
    LET w == Ceil(glyphBounds.Max.X - glyphBounds.Min.X)
        h == Ceil(glyphBounds.Max.Y - glyphBounds.Min.Y)
    IN  IF w = 0 \/ h = 0 THEN NilImage
        ELSE [owner |-> a, rune |-> r, sub |-> subpixelOffset,
              w |-> w + 1, h |-> h + 1, serial |-> serial]

\* adjustGranularity(x, s)
adjustGranularity(x, s) == (x \div Granularity(s.f)) * Granularity(s.f)

\* glyphImageCache.getOrCreate: `created` is what the creation function
\* returns if it is invoked; `invoked` tells whether it was.
getOrCreate(cache, key, created) ==
    IF key \in DOMAIN cache
    THEN [image |-> cache[key], cache |-> cache, invoked |-> FALSE]
    ELSE [image |-> created, cache |-> cache @@ (key :> created), invoked |-> TRUE]

\* a glyphImage that rasterizes on every lookup
lookupNoCache(cache, key, created) ==
    [image |-> created, cache |-> cache, invoked |-> TRUE]

\* the lookup of StdFace.glyphImage
lookupGlyphImage(cache, key, created) == getOrCreate(cache, key, created)

\* an origin whose Y keeps its fractional bits
quantizeOriginKeepY(origin, s) ==
    [X |-> adjustGranularity(origin.X, s), Y |-> origin.Y]

\* the first two statements of StdFace.glyphImage
quantizeOrigin(origin, s) ==
    [X |-> adjustGranularity(origin.X, s), Y |-> ClearFracBits(origin.Y)]

\* a position rounded to the nearest pixel instead of floored
glyphImageXYRound(origin, b) ==
    [X |-> Floor(origin.X + b.Min.X + 32), Y |-> Floor(origin.Y + b.Min.Y + 32)]

\* imgX, imgY of StdFace.glyphImage, from its local (adjusted) origin
glyphImageXY(origin, b) ==
    [X |-> Floor(origin.X + b.Min.X), Y |-> Floor(origin.Y + b.Min.Y)]

Count(counts, k) == IF k \in DOMAIN counts THEN counts[k] ELSE 0

\* StdFace.glyphImage at receiver address a, in world w
glyphImage(a, w, r, origin0) ==
    LET s == w.objs[a]
        origin == quantizeOrigin(origin0, s)
        b == FontGlyphBounds(s.f, r)
        subpixelOffset == [X |-> FracBits(origin.X + b.Min.X),
                           Y |-> FracBits(origin.Y + b.Min.Y)]
        key == [rune |-> r, xoffset |-> subpixelOffset.X]
        hk == [s |-> a, rune |-> r, xoffset |-> subpixelOffset.X]
        n == Count(w.implCount, hk)
        got == lookupGlyphImage(s.glyphImageCache, key,
                                glyphImageImpl(a, r, subpixelOffset, b, n + 1))
        pos == glyphImageXY(origin, b)
    IN  [img |-> got.image, imgX |-> pos.X, imgY |-> pos.Y, a |-> FontAdvance(s.f, r),
         w |-> [w EXCEPT
                  !.objs[a].glyphImageCache = got.cache,
                  !.implCount = IF got.invoked
                                THEN [k \in DOMAIN @ \cup {hk} |-> IF k = hk THEN n + 1 ELSE @[k]]
                                ELSE @,
                  !.requests = @ \cup {[s |-> a, rune |-> r, sub |-> subpixelOffset, b |-> b]},
                  !.lookups = @ \cup {[s |-> a, rune |-> r, xoffset |-> subpixelOffset.X,
                                       img |-> got.image]},
                  !.hits = IF got.invoked THEN @ ELSE @ \cup {hk}]]

\* the loop of StdFace.appendGlyphsForLine from byte i (0-based) on
RECURSIVE appendGlyphsLoop(_, _, _, _, _, _, _)
appendGlyphsLoop(a, w, line, idxOff, i, origin0, prevR) ==
    IF i >= Len(line) THEN w
    ELSE LET d == DecodeRune(line, i + 1)
             s == w.objs[a]
             origin == IF prevR >= 0
                       THEN [origin0 EXCEPT !.X = @ + FontKern(s.f, prevR, d.r)]
                       ELSE origin0
             g == glyphImage(a, w, d.r, origin)
             w1 == IF g.img # NilImage
                   THEN [g.w EXCEPT
                           !.glyphs = Append(@, [StartIndexInBytes |-> idxOff + i,
                                                 EndIndexInBytes |-> idxOff + i + d.size,
                                                 Image |-> g.img,
                                                 X |-> IntToFloat64(g.imgX),
                                                 Y |-> IntToFloat64(g.imgY)]),
                           !.emits = Append(@, [s |-> a, rune |-> d.r, origin |-> origin])]
                   ELSE g.w
         IN  appendGlyphsLoop(a, w1, line, idxOff, i + d.size,
                              [origin EXCEPT !.X = @ + g.a], d.r)

\* StdFace.appendGlyphsForLine at receiver address a, in world w
StdFace_appendGlyphsForLine(a, w, line, idxOff, oX, oY) ==
    IF ~copyCheck(w.objs, a) THEN [w EXCEPT !.panic = TRUE]
    ELSE appendGlyphsLoop(a, w, line, idxOff, 0,
                          [X |-> float64ToFixed26_6(oX), Y |-> float64ToFixed26_6(oY)], -1)

(***************************************************************************)
(* MultiFace                                                               *)
(***************************************************************************)
\* a scan without the break: the last face that has the glyph wins
RECURSIVE faceIndexFromLast(_, _, _, _)
faceIndexFromLast(heap, mf, r, i) ==
    IF i >= Len(mf) THEN -1
    ELSE LET rest == faceIndexFromLast(heap, mf, r, i + 1)
         IN  IF rest # -1 THEN rest
             ELSE IF FontHasGlyph(heap[mf[i + 1]].f, r) THEN i ELSE -1

\* the scan of splitText over the faces from index i (0-based) on: the first
\* face that has the glyph, or -1
RECURSIVE faceIndexFrom(_, _, _, _)
faceIndexFrom(heap, mf, r, i) ==
    IF i >= Len(mf) THEN -1
    ELSE IF ~StdFace_hasGlyph(heap[mf[i + 1]], r) THEN faceIndexFrom(heap, mf, r, i + 1)
    ELSE i

\* an iteration that counts every rune as one byte
splitTextStepOneByte(heap, mf, txt, ri, cs) ==
    LET fi == faceIndexFrom(heap, mf, DecodeRune(txt, ri + 1).r, 0)
        n == Len(cs)
    IN  IF n > 0 /\ cs[n].faceIndex = fi
        THEN [cs EXCEPT ![n].textEndIndex = @ + 1]
        ELSE LET s == IF n > 0 THEN cs[n].textEndIndex ELSE 0
             IN  Append(cs, [textStartIndex |-> s, textEndIndex |-> s + 1, faceIndex |-> fi])

\* an iteration that opens a chunk for every rune
splitTextStepNoMerge(heap, mf, txt, ri, cs) ==
    LET d == DecodeRune(txt, ri + 1)
        n == Len(cs)
        s == IF n > 0 THEN cs[n].textEndIndex ELSE 0
    IN  Append(cs, [textStartIndex |-> s, textEndIndex |-> s + d.size,
                    faceIndex |-> faceIndexFrom(heap, mf, d.r, 0)])

\* one iteration of the loop of splitText, for the rune at byte ri (0-based)
splitTextStep(heap, mf, txt, ri, cs) ==
    LET d == DecodeRune(txt, ri + 1)
        l == d.size
        fi == faceIndexFrom(heap, mf, d.r, 0)
        n == Len(cs)
    IN  IF n > 0 /\ cs[n].faceIndex = fi
        THEN [cs EXCEPT ![n].textEndIndex = @ + l]
        ELSE LET s == IF n > 0 THEN cs[n].textEndIndex ELSE 0
             IN  Append(cs, [textStartIndex |-> s, textEndIndex |-> s + l, faceIndex |-> fi])

RECURSIVE splitTextFrom(_, _, _, _, _)
splitTextFrom(heap, mf, txt, ri, cs) ==
    IF ri >= Len(txt) THEN cs
    ELSE splitTextFrom(heap, mf, txt, ri + DecodeRune(txt, ri + 1).size,
                       splitTextStep(heap, mf, txt, ri, cs))

\* MultiFace.splitText
splitText(heap, mf, txt) == splitTextFrom(heap, mf, txt, 0, <<>>)

\* a loop body whose VAscent branch reads VDescent
MetricsStepSwapped(acc, mt1) ==
    [Height |-> IF mt1.Height > acc.Height THEN mt1.Height ELSE acc.Height,
     HAscent |-> IF mt1.HAscent > acc.HAscent THEN mt1.HAscent ELSE acc.HAscent,
     HDescent |-> IF mt1.HDescent > acc.HDescent THEN mt1.HDescent ELSE acc.HDescent,
     Width |-> IF mt1.Width > acc.Width THEN mt1.Width ELSE acc.Width,
     VAscent |-> IF mt1.VDescent > acc.VAscent THEN mt1.VDescent ELSE acc.VAscent,
     VDescent |-> IF mt1.VDescent > acc.VDescent THEN mt1.VDescent ELSE acc.VDescent]

\* the body of the loop of MultiFace.Metrics, for a source whose Metrics() is mt1
MetricsStep(acc, mt1) ==
    [Height |-> IF mt1.Height > acc.Height THEN mt1.Height ELSE acc.Height,
     HAscent |-> IF mt1.HAscent > acc.HAscent THEN mt1.HAscent ELSE acc.HAscent,
     HDescent |-> IF mt1.HDescent > acc.HDescent THEN mt1.HDescent ELSE acc.HDescent,
     Width |-> IF mt1.Width > acc.Width THEN mt1.Width ELSE acc.Width,
     VAscent |-> IF mt1.VAscent > acc.VAscent THEN mt1.VAscent ELSE acc.VAscent,
     VDescent |-> IF mt1.VDescent > acc.VDescent THEN mt1.VDescent ELSE acc.VDescent]

RECURSIVE MultiFace_MetricsFrom(_, _, _)
MultiFace_MetricsFrom(ms, k, acc) ==
    IF k > Len(ms) THEN acc
    ELSE MultiFace_MetricsFrom(ms, k + 1, MetricsStep(acc, ms[k]))

\* the zero value of Metrics
NoMetrics == [Height |-> 0, HAscent |-> 0, HDescent |-> 0, Width |-> 0, VAscent |-> 0, VDescent |-> 0]

\* MultiFace.Metrics, for sources whose Metrics() are ms
MultiFace_Metrics(ms) == MultiFace_MetricsFrom(ms, 1, NoMetrics)

\* a loop that assigns where the code adds
RECURSIVE MultiFace_advanceAssign(_, _, _, _, _, _)
MultiFace_advanceAssign(heap, mf, txt, cs, k, a) ==
    IF k > Len(cs) THEN a
    ELSE LET c == cs[k]
         IN  IF c.faceIndex = -1
             THEN MultiFace_advanceAssign(heap, mf, txt, cs, k + 1, a)
             ELSE MultiFace_advanceAssign(heap, mf, txt, cs, k + 1,
                      StdFace_advance(heap[mf[c.faceIndex + 1]],
                                      Slice(txt, c.textStartIndex, c.textEndIndex)))

\* the loop of MultiFace.advance from chunk k (1-based) on
RECURSIVE MultiFace_advanceFrom(_, _, _, _, _, _)
MultiFace_advanceFrom(heap, mf, txt, cs, k, a) ==
    IF k > Len(cs) THEN a
    ELSE LET c == cs[k]
         IN  IF c.faceIndex = -1
             THEN MultiFace_advanceFrom(heap, mf, txt, cs, k + 1, a)
             ELSE MultiFace_advanceFrom(heap, mf, txt, cs, k + 1,
                      a + StdFace_advance(heap[mf[c.faceIndex + 1]],
                                          Slice(txt, c.textStartIndex, c.textEndIndex)))

\* MultiFace.advance
MultiFace_advance(heap, mf, txt) ==
    MultiFace_advanceFrom(heap, mf, txt, splitText(heap, mf, txt), 1, 0)

\* the loop of MultiFace.appendGlyphsForLine from chunk k (1-based) on
RECURSIVE MultiFace_appendFrom(_, _, _, _, _, _, _, _)
MultiFace_appendFrom(w, mf, line, cs, k, idxOff, oX, oY) ==
    IF k > Len(cs) \/ w.panic THEN w
    ELSE LET c == cs[k]
         IN  IF c.faceIndex = -1
             THEN MultiFace_appendFrom(w, mf, line, cs, k + 1, idxOff, oX, oY)
             ELSE LET fa == mf[c.faceIndex + 1]
                      t == Slice(line, c.textStartIndex, c.textEndIndex)
                      w1 == StdFace_appendGlyphsForLine(fa, w, t, idxOff, oX, oY)
                      a == StdFace_advance(w.objs[fa], t)
                      hor == isHorizontal(StdFace_direction(w.objs[fa]))
                  IN  MultiFace_appendFrom(w1, mf, line, cs, k + 1, idxOff + Len(t),
                                           IF hor THEN oX + a ELSE oX,
                                           IF hor THEN oY ELSE oY + a)

\* MultiFace.appendGlyphsForLine
MultiFace_appendGlyphsForLine(w, mf, line, idxOff, oX, oY) ==
    MultiFace_appendFrom(w, mf, line, splitText(w.objs, mf, line), 1, idxOff, oX, oY)

(***************************************************************************)
(* Inputs                                                                  *)
(***************************************************************************)
\* 'a', 'b', the lead byte and the continuation byte of U+00E9
Bytes == {97, 98, 195, 169}

RECURSIVE SeqsUpTo(_, _)
SeqsUpTo(S, n) ==
    IF n = 0 THEN {<<>>}
    ELSE LET shorter == SeqsUpTo(S, n - 1)
         IN  shorter \cup {Append(s, x) : s \in shorter, x \in S}

\* "HelloこんにちはWorld世界" in UTF-8
DemoLine ==
    <<72, 101, 108, 108, 111, 227, 129, 147, 227, 130, 147, 227, 129, 171,
      227, 129, 161, 227, 129, 175, 87, 111, 114, 108, 100, 228, 184, 150,
      231, 149, 140>>

Lines == SeqsUpTo(Bytes, MaxLen) \cup {DemoLine}

\* every list of up to MaxFaces distinct StdFaces (addresses are font numbers)
MultiFaces ==
    {mf \in SeqsUpTo(Fonts, MaxFaces) : \A i \in 1..Len(mf) : \A j \in 1..Len(mf) : mf[i] = mf[j] => i = j}

NoLast == [op |-> "none", recv |-> 0, outcome |-> "none", ret |-> 0]

(***************************************************************************)
(* SpecMulti: one MultiFace of StdFaces, one line, and the operations of   *)
(* the MultiFace applied to it.                                            *)
(***************************************************************************)
InitMulti ==
    /\ objs = [a \in Fonts |-> NewStdFace(a, a)]
    /\ m \in MultiFaces
    /\ text \in Lines
    /\ indexOffset = 7
    /\ originX = 161
    /\ originY = 2571
    /\ srcs = <<>>
    /\ last = NoLast
    /\ chunks = <<>>
    /\ adv = 0
    /\ glyphs = <<>>
    /\ mt = NoMetrics
    /\ emits = <<>>
    /\ implCount = <<>>
    /\ requests = {}
    /\ lookups = {}
    /\ hits = {}

MultiSplitText ==
    /\ last' = [op |-> "splitText", recv |-> 0, outcome |-> "ok", ret |-> 0]
    /\ chunks' = splitText(objs, m, text)
    /\ adv' = 0
    /\ glyphs' = <<>>
    /\ mt' = NoMetrics
    /\ emits' = <<>>
    /\ UNCHANGED <<objs, m, text, indexOffset, originX, originY, srcs,
                   implCount, requests, lookups, hits>>

\* the world an operation starts in: the heap and the histories, no output yet
World ==
    [objs |-> objs, implCount |-> implCount, requests |-> requests, lookups |-> lookups,
     hits |-> hits,
     glyphs |-> <<>>, emits |-> <<>>, panic |-> FALSE]

MultiAdvance ==
    /\ last' = [op |-> "advance", recv |-> 0, outcome |-> "ok", ret |-> 0]
    /\ adv' = MultiFace_advance(objs, m, text)
    /\ chunks' = <<>>
    /\ glyphs' = <<>>
    /\ mt' = NoMetrics
    /\ emits' = <<>>
    /\ UNCHANGED <<objs, m, text, indexOffset, originX, originY, srcs,
                   implCount, requests, lookups, hits>>

MultiAppendGlyphsForLine ==
    LET w == MultiFace_appendGlyphsForLine(World, m, text, indexOffset, originX, originY)
    IN  /\ last' = [op |-> "appendGlyphsForLine", recv |-> 0,
                    outcome |-> IF w.panic THEN "panic" ELSE "ok", ret |-> 0]
        /\ objs' = w.objs
        /\ implCount' = w.implCount
        /\ requests' = w.requests
        /\ lookups' = w.lookups
        /\ hits' = w.hits
        /\ glyphs' = w.glyphs
        /\ emits' = w.emits
        /\ chunks' = <<>>
        /\ adv' = 0
        /\ mt' = NoMetrics
        /\ UNCHANGED <<m, text, indexOffset, originX, originY, srcs>>

NextMulti ==
    \/ MultiSplitText
    \/ MultiAdvance
    \/ MultiAppendGlyphsForLine

SpecMulti == InitMulti /\ [][NextMulti]_vars

(***************************************************************************)
(* SpecStd: one StdFace and any sequence of appendGlyphsForLine calls on   *)
(* it.  SpecCopy: one StdFace at address 1, possibly copied by value to    *)
(* address 2, and the operations of StdFace through either.                *)
(***************************************************************************)
\* "a" and "é" in UTF-8
StdPieces == {<<97>>, <<195, 169>>}

RECURSIVE ConcatsUpTo(_, _)
ConcatsUpTo(S, n) ==
    IF n = 0 THEN {<<>>}
    ELSE LET shorter == ConcatsUpTo(S, n - 1)
         IN  shorter \cup {s \o x : s \in shorter, x \in S}

StdLines == ConcatsUpTo(StdPieces, StdMaxLen)

\* float64 origins: whole pixels, and values whose Int26_6 has fractional bits
StdOriginXs == {0, 127}
StdOriginYs == {0, 91}

StdRunes == {97, 233, RuneError}

Receivers == {a \in DOMAIN objs : objs[a] # NoObj}

InitStd ==
    /\ \E face \in Fonts : objs = [a \in 1..2 |-> IF a = 1 THEN NewStdFace(1, face) ELSE NoObj]
    /\ m = <<>>
    /\ text = <<>>
    /\ indexOffset = 0
    /\ originX = 0
    /\ originY = 0
    /\ srcs = <<>>
    /\ last = NoLast
    /\ chunks = <<>>
    /\ adv = 0
    /\ glyphs = <<>>
    /\ mt = NoMetrics
    /\ emits = <<>>
    /\ implCount = <<>>
    /\ requests = {}
    /\ lookups = {}
    /\ hits = {}

\* c := *s
CopyByValue ==
    /\ objs[2] = NoObj
    /\ objs' = [objs EXCEPT ![2] = objs[1]]
    /\ last' = [op |-> "copy", recv |-> 1, outcome |-> "ok", ret |-> 0]
    /\ adv' = 0
    /\ glyphs' = <<>>
    /\ mt' = NoMetrics
    /\ emits' = <<>>
    /\ UNCHANGED <<m, text, indexOffset, originX, originY, srcs, chunks,
                   implCount, requests, lookups, hits>>

\* StdFace.Metrics through the StdFace at address a
StdMetrics(a) ==
    /\ last' = [op |-> "Metrics", recv |-> a,
                outcome |-> IF copyCheck(objs, a) THEN "ok" ELSE "panic", ret |-> 0]
    /\ mt' = IF copyCheck(objs, a) THEN StdFace_Metrics(objs[a]) ELSE NoMetrics
    /\ adv' = 0
    /\ glyphs' = <<>>
    /\ emits' = <<>>
    /\ UNCHANGED <<objs, m, text, indexOffset, originX, originY, srcs, chunks,
                   implCount, requests, lookups, hits>>

\* StdFace.UnsafeInternal
StdUnsafeInternal(a) ==
    /\ last' = IF copyCheck(objs, a)
               THEN [op |-> "UnsafeInternal", recv |-> a, outcome |-> "ok", ret |-> objs[a].f]
               ELSE [op |-> "UnsafeInternal", recv |-> a, outcome |-> "panic", ret |-> 0]
    /\ mt' = NoMetrics
    /\ adv' = 0
    /\ glyphs' = <<>>
    /\ emits' = <<>>
    /\ UNCHANGED <<objs, m, text, indexOffset, originX, originY, srcs, chunks,
                   implCount, requests, lookups, hits>>

\* StdFace.advance
StdAdvance(a, line) ==
    /\ last' = [op |-> "advance", recv |-> a, outcome |-> "ok", ret |-> 0]
    /\ adv' = StdFace_advance(objs[a], line)
    /\ mt' = NoMetrics
    /\ glyphs' = <<>>
    /\ emits' = <<>>
    /\ UNCHANGED <<objs, m, text, indexOffset, originX, originY, srcs, chunks,
                   implCount, requests, lookups, hits>>

\* StdFace.hasGlyph
StdHasGlyph(a, r) ==
    /\ last' = [op |-> "hasGlyph", recv |-> a, outcome |-> "ok",
                ret |-> IF StdFace_hasGlyph(objs[a], r) THEN 1 ELSE 0]
    /\ mt' = NoMetrics
    /\ adv' = 0
    /\ glyphs' = <<>>
    /\ emits' = <<>>
    /\ UNCHANGED <<objs, m, text, indexOffset, originX, originY, srcs, chunks,
                   implCount, requests, lookups, hits>>

\* StdFace.direction (ret 0 is DirectionLeftToRight)
StdDirection(a) ==
    /\ last' = [op |-> "direction", recv |-> a, outcome |-> "ok",
                ret |-> IF StdFace_direction(objs[a]) = "LeftToRight" THEN 0 ELSE 1]
    /\ mt' = NoMetrics
    /\ adv' = 0
    /\ glyphs' = <<>>
    /\ emits' = <<>>
    /\ UNCHANGED <<objs, m, text, indexOffset, originX, originY, srcs, chunks,
                   implCount, requests, lookups, hits>>

\* StdFace.appendVectorPathForLine: an empty body
StdAppendVectorPathForLine(a) ==
    /\ last' = [op |-> "appendVectorPathForLine", recv |-> a, outcome |-> "ok", ret |-> 0]
    /\ mt' = NoMetrics
    /\ adv' = 0
    /\ glyphs' = <<>>
    /\ emits' = <<>>
    /\ UNCHANGED <<objs, m, text, indexOffset, originX, originY, srcs, chunks,
                   implCount, requests, lookups, hits>>

\* StdFace.appendGlyphsForLine onto an empty glyph list
StdAppendGlyphsForLine(a, line, idxOff, oX, oY) ==
    LET w == StdFace_appendGlyphsForLine(a, World, line, idxOff, oX, oY)
    IN  /\ last' = [op |-> "appendGlyphsForLine", recv |-> a,
                    outcome |-> IF w.panic THEN "panic" ELSE "ok", ret |-> 0]
        /\ objs' = w.objs
        /\ implCount' = w.implCount
        /\ requests' = w.requests
        /\ lookups' = w.lookups
        /\ hits' = w.hits
        /\ glyphs' = w.glyphs
        /\ emits' = w.emits
        /\ adv' = 0
        /\ mt' = NoMetrics
        /\ UNCHANGED <<m, text, indexOffset, originX, originY, srcs, chunks>>

NextStd ==
    \/ \E line \in StdLines, oX \in StdOriginXs, oY \in StdOriginYs :
           StdAppendGlyphsForLine(1, line, 3, oX, oY)

SpecStd == InitStd /\ [][NextStd]_vars

\* the lines of SpecCopy: empty, or one rune
CopyLines == {<<>>} \cup StdPieces

NextCopy ==
    \/ CopyByValue
    \/ \E a \in Receivers : StdMetrics(a)
    \/ \E a \in Receivers : StdUnsafeInternal(a)
    \/ \E a \in Receivers, line \in CopyLines : StdAdvance(a, line)
    \/ \E a \in Receivers, r \in StdRunes : StdHasGlyph(a, r)
    \/ \E a \in Receivers : StdDirection(a)
    \/ \E a \in Receivers : StdAppendVectorPathForLine(a)
    \/ \E a \in Receivers, line \in CopyLines : StdAppendGlyphsForLine(a, line, 3, 127, 91)

SpecCopy == InitStd /\ [][NextCopy]_vars

(***************************************************************************)
(* SpecMetrics: a MultiFace given by the Metrics() of its sources, and     *)
(* MultiFace.Metrics applied to it.                                        *)
(***************************************************************************)
\* what sources report: the StdFaces of the model, faces with vertical
\* metrics, a face with a negative descent
MetricsPool ==
    {StdFace_Metrics(NewStdFace(f, f)) : f \in Fonts} \cup
    { NoMetrics,
      [Height |-> 4096, HAscent |-> 3000, HDescent |-> 1096,
       Width |-> 4096, VAscent |-> 2048, VDescent |-> 2048],
      [Height |-> 2560, HAscent |-> 2700, HDescent |-> 300,
       Width |-> 5120, VAscent |-> 1000, VDescent |-> 3000],
      [Height |-> 100, HAscent |-> 0, HDescent |-> 0,
       Width |-> 0, VAscent |-> 4000, VDescent |-> 0],
      [Height |-> 3000, HAscent |-> 2500, HDescent |-> -500,
       Width |-> 0, VAscent |-> 0, VDescent |-> 0] }

InitMetrics ==
    /\ srcs \in SeqsUpTo(MetricsPool, MaxFaces)
    /\ objs = <<>>
    /\ m = <<>>
    /\ text = <<>>
    /\ indexOffset = 0
    /\ originX = 0
    /\ originY = 0
    /\ last = NoLast
    /\ chunks = <<>>
    /\ adv = 0
    /\ glyphs = <<>>
    /\ mt = NoMetrics
    /\ emits = <<>>
    /\ implCount = <<>>
    /\ requests = {}
    /\ lookups = {}
    /\ hits = {}

MultiMetrics ==
    /\ last' = [op |-> "Metrics", recv |-> 0, outcome |-> "ok", ret |-> 0]
    /\ mt' = MultiFace_Metrics(srcs)
    /\ UNCHANGED <<objs, m, text, indexOffset, originX, originY, srcs, chunks, adv,
                   glyphs, emits, implCount, requests, lookups, hits>>

NextMetrics ==
    \/ MultiMetrics

SpecMetrics == InitMetrics /\ [][NextMetrics]_vars

(***************************************************************************)
(* Properties of MultiFace, checked under SpecMulti.                       *)
(***************************************************************************)
\* the byte positions (0-based) at which `for i, r := range txt` starts a rune
RECURSIVE RuneStartsFrom(_, _)
RuneStartsFrom(txt, i) ==
    IF i >= Len(txt) THEN {}
    ELSE {i} \cup RuneStartsFrom(txt, i + DecodeRune(txt, i + 1).size)

RuneStarts(txt) == RuneStartsFrom(txt, 0)

RuneAt(txt, i) == DecodeRune(txt, i + 1)

\* the faces of m (0-based indices) that report hasGlyph(r)
FacesWith(r) == {i \in 0..(Len(m) - 1) : FontHasGlyph(objs[m[i + 1]].f, r)}

\* C1: the chunks of splitText, in output order, are non-empty and contiguous,
\* start at byte 0 and end at len(line): they exactly cover [0, len(line)).
C1_ChunkCoverage ==
    last.op = "splitText" =>
        IF chunks = <<>> THEN Len(text) = 0
        ELSE /\ chunks[1].textStartIndex = 0
             /\ chunks[Len(chunks)].textEndIndex = Len(text)
             /\ \A k \in 1..Len(chunks) : chunks[k].textStartIndex < chunks[k].textEndIndex
             /\ \A k \in 2..Len(chunks) :
                    chunks[k].textStartIndex = chunks[k - 1].textEndIndex

C1_Witness ==
    /\ last.op = "splitText"
    /\ Len(chunks) >= 2
    /\ text[1] = 195 /\ text[2] = 169
    /\ chunks[1].textEndIndex = 2
    /\ \E i \in RuneStarts(text) : RuneAt(text, i).r = RuneError

\* C2: no two adjacent chunks of splitText have the same faceIndex, the
\* sentinel -1 included.
C2_ChunkMaximality ==
    last.op = "splitText" =>
        \A k \in 2..Len(chunks) : chunks[k].faceIndex # chunks[k - 1].faceIndex

C2_Witness ==
    /\ last.op = "splitText"
    /\ Len(chunks) >= 2
    /\ \E k \in 1..Len(chunks) :
           /\ chunks[k].faceIndex = -1
           /\ Cardinality({i \in RuneStarts(text) :
                  chunks[k].textStartIndex <= i /\ i < chunks[k].textEndIndex}) >= 2

\* C3: every rune inside a chunk has the chunk's faceIndex as the smallest
\* index of a face that has its glyph, and -1 exactly when no face has it; the
\* demo line over [Latin face, face for the rest] splits into four chunks 0,1,0,1.
C3_FirstFaceWins ==
    last.op = "splitText" =>
        /\ \A k \in 1..Len(chunks) :
               \A i \in chunks[k].textStartIndex..(chunks[k].textEndIndex - 1) :
                   i \in RuneStarts(text) =>
                       LET with == FacesWith(RuneAt(text, i).r)
                       IN  /\ (chunks[k].faceIndex = -1) <=> (with = {})
                           /\ with # {} =>
                                  /\ chunks[k].faceIndex \in with
                                  /\ \A j \in with : chunks[k].faceIndex <= j
        /\ (text = DemoLine /\ m = <<1, 2>>) =>
               chunks = << [textStartIndex |-> 0, textEndIndex |-> 5, faceIndex |-> 0],
                           [textStartIndex |-> 5, textEndIndex |-> 20, faceIndex |-> 1],
                           [textStartIndex |-> 20, textEndIndex |-> 25, faceIndex |-> 0],
                           [textStartIndex |-> 25, textEndIndex |-> 31, faceIndex |-> 1] >>

C3_Witness ==
    /\ last.op = "splitText"
    /\ text = DemoLine
    /\ m = <<1, 2>>
    /\ Len(chunks) = 4

\* C4: every Glyph appended by MultiFace.appendGlyphsForLine has, after
\* subtracting indexOffset, the byte range of the one rune of the full line it
\* was made for.
C4_GlyphByteRangeFidelity ==
    last.op = "appendGlyphsForLine" =>
        \A k \in 1..Len(glyphs) :
            \E i \in RuneStarts(text) :
                /\ glyphs[k].StartIndexInBytes - indexOffset = i
                /\ glyphs[k].EndIndexInBytes - indexOffset = i + RuneAt(text, i).size
                /\ RuneAt(text, i).r = emits[k].rune

\* the advance a source reports for chunk c of the line
ChunkAdvance(c) ==
    IF c.faceIndex = -1 THEN 0
    ELSE StdFace_advance(objs[m[c.faceIndex + 1]], Slice(text, c.textStartIndex, c.textEndIndex))

RECURSIVE SumChunkAdvances(_, _)
SumChunkAdvances(cs, n) ==
    IF n = 0 THEN 0 ELSE SumChunkAdvances(cs, n - 1) + ChunkAdvance(cs[n])

\* C6: MultiFace.advance(line) is the sum of the sources' advances over the
\* non-sentinel chunks of splitText(line), and 0 when no rune is covered.
C6_AdvanceAdditivity ==
    last.op = "advance" =>
        LET cs == splitText(objs, m, text)
        IN  /\ adv = SumChunkAdvances(cs, Len(cs))
            /\ (\A i \in RuneStarts(text) : FacesWith(RuneAt(text, i).r) = {}) => adv = 0

C6_Witness ==
    /\ last.op = "advance"
    /\ adv > 0
    /\ LET cs == splitText(objs, m, text)
       IN  /\ Len(cs) = 3
           /\ cs[2].faceIndex = -1
           /\ cs[1].faceIndex # -1
           /\ cs[3].faceIndex # -1

(***************************************************************************)
(* Properties of MultiFace.Metrics, checked under SpecMetrics.             *)
(***************************************************************************)
MetricsFields == {"Height", "HAscent", "HDescent", "Width", "VAscent", "VDescent"}

MaxOf(S) == CHOOSE x \in S : \A y \in S : y <= x

SourcesNonNegative == \A k \in 1..Len(srcs) : \A fld \in MetricsFields : srcs[k][fld] >= 0

\* C7: over sources with non-negative metrics, every field of
\* MultiFace.Metrics() is the maximum of that field over the sources, and an
\* empty MultiFace returns the all-zero Metrics.
C7_MetricsMaximum ==
    last.op = "Metrics" =>
        /\ srcs = <<>> => mt = NoMetrics
        /\ (srcs # <<>> /\ SourcesNonNegative) =>
               \A fld \in MetricsFields :
                   mt[fld] = MaxOf({srcs[k][fld] : k \in 1..Len(srcs)})

C7_Witness ==
    /\ last.op = "Metrics"
    /\ Len(srcs) = 2
    /\ SourcesNonNegative
    /\ mt # srcs[1]
    /\ mt # srcs[2]
    /\ mt.VAscent > mt.VDescent
    /\ mt.VDescent > 0

(***************************************************************************)
(* Properties of the copy guard of StdFace, checked under SpecCopy.        *)
(***************************************************************************)
FaceOperations ==
    {"Metrics", "UnsafeInternal", "advance", "hasGlyph", "appendGlyphsForLine",
     "appendVectorPathForLine", "direction"}

GuardedOperations == {"Metrics", "UnsafeInternal", "appendGlyphsForLine"}

ThroughCopy == last.op \in FaceOperations /\ objs[last.recv].addr # last.recv

SameKey(x, y) == x.s = y.s /\ x.rune = y.rune /\ x.xoffset = y.xoffset

\* C8: on one StdFace, lookups with the same rune and the same horizontal
\* sub-pixel offset return the identical image, and glyphImageImpl is invoked
\* at most once per such key, also when its result is nil.
C8_CacheKeyDeterminism ==
    /\ \A x \in lookups : \A y \in lookups : SameKey(x, y) => x.img = y.img
    /\ \A k \in DOMAIN implCount : implCount[k] <= 1

\* a key with ink and a key without, each found in the cache by a later lookup
C8_Witness ==
    /\ \E k \in hits : \E x \in lookups : SameKey(k, x) /\ x.img # NilImage
    /\ \E k \in hits : \E x \in lookups :
           /\ SameKey(k, x)
           /\ x.img = NilImage
           /\ FontHasGlyph(objs[1].f, k.rune)
           /\ implCount[k] = 1

\* the glyph bounds of the rune of the k-th Glyph of the last call
EmitBounds(k) == FontGlyphBounds(objs[emits[k].s].f, emits[k].rune)

\* C9 as stated: X and Y of every Glyph are the floor of the running origin,
\* as it was before glyphImage adjusted it, plus the minimum of the bounds.
C9_PlacedFromRunningOrigin ==
    \A k \in 1..Len(glyphs) :
        /\ glyphs[k].X = IntToFloat64(Floor(emits[k].origin.X + EmitBounds(k).Min.X))
        /\ glyphs[k].Y = IntToFloat64(Floor(emits[k].origin.Y + EmitBounds(k).Min.Y))

\* C9 as amended: X and Y of every Glyph are the floor of the adjusted origin
\* (X on the granularity grid, Y without fractional bits) plus the minimum of
\* the bounds: the adjustment decides the position as well as the cache key.
C9_PlacedFromAdjustedOrigin ==
    \A k \in 1..Len(glyphs) :
        /\ glyphs[k].X =
               IntToFloat64(Floor(adjustGranularity(emits[k].origin.X, objs[emits[k].s])
                                  + EmitBounds(k).Min.X))
        /\ glyphs[k].Y =
               IntToFloat64(Floor(ClearFracBits(emits[k].origin.Y) + EmitBounds(k).Min.Y))

\* a Glyph whose place differs, in both axes, from the one the running origin gives
C9_Witness ==
    \E k \in 1..Len(glyphs) :
        /\ k >= 2
        /\ glyphs[k].X # IntToFloat64(Floor(emits[k].origin.X + EmitBounds(k).Min.X))
        /\ glyphs[k].Y # IntToFloat64(Floor(emits[k].origin.Y + EmitBounds(k).Min.Y))

\* C10: the vertical offset bound for rasterization is the fractional bits of
\* the bounds' Min.Y whatever the origin, so lookups with equal keys bind equal
\* creation inputs.
C10_VerticalOffsetFixed ==
    /\ \A q \in requests : q.sub.Y = FracBits(q.b.Min.Y)
    /\ \A q1 \in requests : \A q2 \in requests :
           (q1.s = q2.s /\ q1.rune = q2.rune /\ q1.sub.X = q2.sub.X) => q1 = q2

\* a lookup made at an origin whose Y has fractional bits, of a key that an
\* earlier lookup had put in the cache
C10_Witness ==
    \E k \in 1..Len(glyphs) :
        /\ FracBits(emits[k].origin.Y) # 0
        /\ FracBits(EmitBounds(k).Min.Y) # 0
        /\ glyphs[k].Image.sub.Y # FracBits(emits[k].origin.Y + EmitBounds(k).Min.Y)
        /\ \E h \in hits : h.rune = emits[k].rune /\ h.xoffset = glyphs[k].Image.sub.X

====
